---- MODULE Spec2Model ----
(***************************************************************************)
(* Model of exporter/src/book.rs: parse_file lifts one file's ID3 tag into *)
(* an AudioBook of one track, AudioBook::merge reconciles two books, and   *)
(* parse_book folds the files of one directory through merge and sorts the *)
(* tracks of the resulting book.                                           *)
(*                                                                         *)
(* Option<T> is a sequence of length 0 (None) or 1 (Some(x)).  Result<T>   *)
(* is a record [ok, book, err].  total_tracks is a u32; it counts files,   *)
(* so it stays far below 2^32 for every directory the model enumerates.    *)
(***************************************************************************)
EXTENDS Integers, Sequences, FiniteSets, TLC

None == << >>
Some(x) == << x >>
IsSome(o) == Len(o) = 1
IsNone(o) == Len(o) = 0

(* --------------------------- bounds ------------------------------------ *)
\* Largest number of entries read_dir yields for the directory.
MaxEntries == 3

(* --------------------------- Result ------------------------------------ *)
NoBook == [title |-> "", author |-> {}, reader |-> {}, tracks |-> << >>,
           total_tracks |-> 0, discs |-> None, year |-> None]
NoErr == [kind |-> "", left |-> None, right |-> None]

Ok(b) == [ok |-> TRUE, book |-> b, err |-> NoErr]
Err(e) == [ok |-> FALSE, book |-> NoBook, err |-> e]

\* eyre reports built with eyre!(..): the kind is the message, left and right
\* are the two formatted arguments.
Report(kind, l, r) == [kind |-> kind, left |-> l, right |-> r]
IoError == Report("Io", None, None)
TagError(kind) == Report(kind, None, None)

(* --------------------------- parse_file -------------------------------- *)
\* tag: None when Tag::read_from_path fails, else Some(the ID3 frames).
parse_file(file) ==
    IF IsNone(file) THEN Err(TagError("CantParseFile"))
    ELSE LET tag == file[1] IN
      IF IsNone(tag.title) THEN Err(TagError("NoTitle"))
      ELSE IF IsNone(tag.artists) THEN Err(TagError("NoArtist"))
      ELSE IF IsNone(tag.track) THEN Err(TagError("NoTrack"))
      ELSE IF IsNone(tag.album) THEN Err(TagError("NoAlbum"))
      ELSE LET track == [title |-> tag.title[1],
                         reader |-> tag.artists[1],
                         track |-> tag.track[1],
                         disc |-> tag.disc]
           IN Ok([title |-> tag.album[1],
                  author |-> {IF IsSome(tag.album_artist)
                              THEN tag.album_artist[1] ELSE ""},
                  reader |-> track.reader,
                  tracks |-> << track >>,
                  total_tracks |-> 1,
                  discs |-> tag.total_discs,
                  year |-> tag.year])

(* --------------------------- AudioBook::merge -------------------------- *)
MergeAuthorLeftOnly(l, r) == l.author
MergeAuthor(l, r) == l.author \cup r.author

MergeReader(l, r) == l.reader \cup r.reader

MergeTracksSwapped(l, r) == r.tracks \o l.tracks
MergeTracks(l, r) == l.tracks \o r.tracks

MergeTotalIncrement(l, r) == l.total_tracks + 1
MergeTotalKeepLeft(l, r) == l.total_tracks
MergeTotal(l, r) == l.total_tracks + r.total_tracks

\* Both operands are books: title is compared first, then (after the
\* combinable fields are built) discs, then year.
MergeBooksDiscsFirst(l, r) ==
    IF l.discs # r.discs
    THEN Err(Report("DiscConflict", l.discs, r.discs))
    ELSE IF l.title # r.title
    THEN Err(Report("TitleConflict", Some(l.title), Some(r.title)))
    ELSE IF l.year # r.year
    THEN Err(Report("YearConflict", l.year, r.year))
    ELSE Ok([title |-> l.title,
             author |-> MergeAuthor(l, r),
             reader |-> MergeReader(l, r),
             tracks |-> MergeTracks(l, r),
             total_tracks |-> MergeTotal(l, r),
             discs |-> l.discs,
             year |-> l.year])
MergeBooks(l, r) ==
    IF l.title # r.title
    THEN Err(Report("TitleConflict", Some(l.title), Some(r.title)))
    ELSE IF l.discs # r.discs
    THEN Err(Report("DiscConflict", l.discs, r.discs))
    ELSE IF l.year # r.year
    THEN Err(Report("YearConflict", l.year, r.year))
    ELSE Ok([title |-> l.title,
             author |-> MergeAuthor(l, r),
             reader |-> MergeReader(l, r),
             tracks |-> MergeTracks(l, r),
             total_tracks |-> MergeTotal(l, r),
             discs |-> l.discs,
             year |-> l.year])

mergeRecovers(lhs, rhs) ==
    IF ~lhs.ok THEN rhs
    ELSE IF ~rhs.ok THEN rhs
    ELSE MergeBooks(lhs.book, rhs.book)
mergeRhsChecked(lhs, rhs) ==
    IF ~rhs.ok THEN rhs
    ELSE IF ~lhs.ok THEN lhs
    ELSE MergeBooks(lhs.book, rhs.book)
merge(lhs, rhs) ==
    IF ~lhs.ok THEN lhs
    ELSE IF ~rhs.ok THEN rhs
    ELSE MergeBooks(lhs.book, rhs.book)

(* --------------------------- Vector::sort_by --------------------------- *)
\* The comparator of the final sort: |track1, track2| track1.track.cmp(&track2.track).
TrackKeyDiscFirst(t) == (IF IsSome(t.disc) THEN t.disc[1] ELSE 0) * 100 + t.track
TrackKey(t) == t.track

Arrangements(s) ==
    IF s = << >> THEN { << >> }
    ELSE { [i \in 1..Len(s) |-> s[p[i]]] : p \in Permutations(1..Len(s)) }

IsOrdered(s) == \A i \in 1..(Len(s) - 1) : TrackKey(s[i]) <= TrackKey(s[i + 1])

\* tracks is an im::Vector; its sort_by is an in-place quicksort with a
\* pseudo-random pivot and promises only that the result is the same elements
\* ordered by the comparator.  The order it leaves between elements that
\* compare Equal is not fixed by book.rs, so every ordered arrangement is a
\* possible outcome.
sort_by(tracks) == { s \in Arrangements(tracks) : IsOrdered(s) }

(* --------------------------- inputs ------------------------------------ *)
BaseTag == [title |-> Some("ch1"), artists |-> Some({"r"}), track |-> Some(1),
            disc |-> None, album |-> Some("A"), album_artist |-> None,
            total_discs |-> None, year |-> None]

\* The tags a file may carry: BaseTag and every tag that differs from it in
\* one frame (a missing required frame, or another value).
Tags ==
    {BaseTag}
    \cup {[BaseTag EXCEPT !.title = v] : v \in {None}}
    \cup {[BaseTag EXCEPT !.artists = v] : v \in {None, Some({"s", "t"})}}
    \cup {[BaseTag EXCEPT !.track = v] : v \in {None, Some(2)}}
    \cup {[BaseTag EXCEPT !.disc = v] : v \in {Some(1)}}
    \cup {[BaseTag EXCEPT !.album = v] : v \in {None, Some("B")}}
    \cup {[BaseTag EXCEPT !.album_artist = v] : v \in {Some("x")}}
    \cup {[BaseTag EXCEPT !.total_discs = v] : v \in {Some(2)}}
    \cup {[BaseTag EXCEPT !.year = v] : v \in {Some(1999)}}

\* One item of the ReadDir iterator: an entry that cannot be read, an entry
\* that is no regular file (or whose type is unknown), or a regular file.
Entries ==
    {[kind |-> "unreadable", file |-> None], [kind |-> "other", file |-> None],
     [kind |-> "file", file |-> None]}
    \cup {[kind |-> "file", file |-> Some(t)] : t \in Tags}

Directories == UNION {[1..n -> Entries] : n \in 0..MaxEntries}

\* Tags of the files whose books are passed to merge directly: Tags and a
\* second present value of each frame merge compares or combines.
MergeTags ==
    Tags
    \cup {[BaseTag EXCEPT !.title = v] : v \in {Some("ch2")}}
    \cup {[BaseTag EXCEPT !.artists = v] : v \in {Some({"s"})}}
    \cup {[BaseTag EXCEPT !.total_discs = v] : v \in {Some(3)}}
    \cup {[BaseTag EXCEPT !.year = v] : v \in {Some(2001)}}

\* Operands of a direct call of merge: every single-file book and two failures.
Operands ==
    {parse_file(Some(t)) : t \in {u \in MergeTags : parse_file(Some(u)).ok}}
    \cup {Err(IoError), Err(Report("TitleConflict", Some("A"), Some("B")))}

(* --------------------------- state ------------------------------------- *)
VARIABLES
    pc,        \* "read_dir", "iterate", "done" (parse_book); "merge" (merge called directly)
    listable,  \* whether std::fs::read_dir(&path) succeeds
    dir,       \* the entries of the directory, in enumeration order
    idx,       \* the next entry the iterator chain pulls
    acc,       \* the accumulator of reduce: None before the first book
    accs,      \* history: the accumulator after every step of reduce
    result,    \* the value parse_book returns: Option<Result<AudioBook>>
    lhs, rhs, third,       \* operands of direct merge calls
    lr, rt, lr_t, l_rt     \* merge(lhs,rhs), merge(rhs,third),
                           \* merge(merge(lhs,rhs),third), merge(lhs,merge(rhs,third))

vars == << pc, listable, dir, idx, acc, accs, result,
           lhs, rhs, third, lr, rt, lr_t, l_rt >>
bookVars == << listable, dir, idx, acc, accs, result >>
mergeVars == << lhs, rhs, third, lr, rt, lr_t, l_rt >>

InitParseBook ==
    /\ pc = "read_dir"
    /\ listable \in BOOLEAN
    /\ dir \in (IF listable THEN Directories ELSE {<< >>})
    /\ idx = 1
    /\ acc = None
    /\ accs = << >>
    /\ result = None
    /\ lhs = Err(IoError) /\ rhs = Err(IoError) /\ third = Err(IoError)
    /\ lr = None /\ rt = None /\ lr_t = None /\ l_rt = None

InitMerge ==
    /\ pc = "merge"
    /\ listable = FALSE
    /\ dir = << >>
    /\ idx = 1
    /\ acc = None
    /\ accs = << >>
    /\ result = None
    /\ lhs \in Operands /\ rhs \in Operands /\ third \in Operands
    /\ lr = None /\ rt = None /\ lr_t = None /\ l_rt = None

Init == InitParseBook \/ InitMerge

(* --------------------------- parse_book -------------------------------- *)
\* read_dir fails: return Some(Err(e.into())).
ReadDirErr ==
    /\ pc = "read_dir" /\ ~listable
    /\ result' = Some(Err(IoError))
    /\ pc' = "done"
    /\ UNCHANGED << listable, dir, idx, acc, accs >>
    /\ UNCHANGED mergeVars

ReadDirOk ==
    /\ pc = "read_dir" /\ listable
    /\ pc' = "iterate"
    /\ UNCHANGED bookVars
    /\ UNCHANGED mergeVars

\* First filter_map: an entry that cannot be read is logged and dropped.
SkipUnreadable ==
    /\ pc = "iterate" /\ idx <= Len(dir)
    /\ dir[idx].kind = "unreadable"
    /\ idx' = idx + 1
    /\ UNCHANGED << pc, listable, dir, acc, accs, result >>
    /\ UNCHANGED mergeVars

\* filter: only regular files pass.
SkipNonFile ==
    /\ pc = "iterate" /\ idx <= Len(dir)
    /\ dir[idx].kind = "other"
    /\ idx' = idx + 1
    /\ UNCHANGED << pc, listable, dir, acc, accs, result >>
    /\ UNCHANGED mergeVars

\* Second filter_map: a file parse_file fails on is logged and dropped.
SkipUnparsableAborts ==
    /\ pc = "iterate" /\ idx <= Len(dir)
    /\ dir[idx].kind = "file"
    /\ ~parse_file(dir[idx].file).ok
    /\ result' = Some(parse_file(dir[idx].file))
    /\ pc' = "done"
    /\ UNCHANGED << listable, dir, idx, acc, accs >>
    /\ UNCHANGED mergeVars
SkipUnparsable ==
    /\ pc = "iterate" /\ idx <= Len(dir)
    /\ dir[idx].kind = "file"
    /\ ~parse_file(dir[idx].file).ok
    /\ idx' = idx + 1
    /\ UNCHANGED << pc, listable, dir, acc, accs, result >>
    /\ UNCHANGED mergeVars

\* map(Result::Ok) and one step of reduce(AudioBook::merge): the first book
\* becomes the accumulator, every later one is merged into it from the right.
FoldFile ==
    /\ pc = "iterate" /\ idx <= Len(dir)
    /\ dir[idx].kind = "file"
    /\ parse_file(dir[idx].file).ok
    /\ LET item == Ok(parse_file(dir[idx].file).book)
           next == IF IsNone(acc) THEN item ELSE merge(acc[1], item)
       IN /\ acc' = Some(next)
          /\ accs' = Append(accs, next)
    /\ idx' = idx + 1
    /\ UNCHANGED << pc, listable, dir, result >>
    /\ UNCHANGED mergeVars

\* reduce(..)? on an empty iterator: parse_book returns None.
ReturnNone ==
    /\ pc = "iterate" /\ idx > Len(dir)
    /\ IsNone(acc)
    /\ result' = None
    /\ pc' = "done"
    /\ UNCHANGED << listable, dir, idx, acc, accs >>
    /\ UNCHANGED mergeVars

\* Some(unsortet_book.map(..)) on a failure: the failure is returned as it is.
ReturnErr ==
    /\ pc = "iterate" /\ idx > Len(dir)
    /\ IsSome(acc) /\ ~acc[1].ok
    /\ result' = acc
    /\ pc' = "done"
    /\ UNCHANGED << listable, dir, idx, acc, accs >>
    /\ UNCHANGED mergeVars

\* Some(unsortet_book.map(..)) on a book: its tracks are sorted by track.
ReturnSorted ==
    /\ pc = "iterate" /\ idx > Len(dir)
    /\ IsSome(acc) /\ acc[1].ok
    /\ \E sorted \in sort_by(acc[1].book.tracks) :
          result' = Some(Ok([acc[1].book EXCEPT !.tracks = sorted]))
    /\ pc' = "done"
    /\ UNCHANGED << listable, dir, idx, acc, accs >>
    /\ UNCHANGED mergeVars

(* --------------------------- merge, called directly -------------------- *)
MergeLeftRight ==
    /\ pc = "merge" /\ IsNone(lr)
    /\ lr' = Some(merge(lhs, rhs))
    /\ UNCHANGED << pc, lhs, rhs, third, rt, lr_t, l_rt >>
    /\ UNCHANGED bookVars

MergeRightThird ==
    /\ pc = "merge" /\ IsNone(rt)
    /\ rt' = Some(merge(rhs, third))
    /\ UNCHANGED << pc, lhs, rhs, third, lr, lr_t, l_rt >>
    /\ UNCHANGED bookVars

MergeGroupedLeft ==
    /\ pc = "merge" /\ IsSome(lr) /\ IsNone(lr_t)
    /\ lr_t' = Some(merge(lr[1], third))
    /\ UNCHANGED << pc, lhs, rhs, third, lr, rt, l_rt >>
    /\ UNCHANGED bookVars

MergeGroupedRight ==
    /\ pc = "merge" /\ IsSome(rt) /\ IsNone(l_rt)
    /\ l_rt' = Some(merge(lhs, rt[1]))
    /\ UNCHANGED << pc, lhs, rhs, third, lr, rt, lr_t >>
    /\ UNCHANGED bookVars

Next ==
    \/ ReadDirErr
    \/ ReadDirOk
    \/ SkipUnreadable
    \/ SkipNonFile
    \/ SkipUnparsable
    \/ FoldFile
    \/ ReturnNone
    \/ ReturnErr
    \/ ReturnSorted
    \/ MergeLeftRight
    \/ MergeRightThird
    \/ MergeGroupedLeft
    \/ MergeGroupedRight

Spec == Init /\ [][Next]_vars

(* --------------------------- parse_book as a function ------------------ *)
\* What passes the three filters of the iterator chain.
Usable(e) == e.kind = "file" /\ parse_file(e.file).ok

\* The books reduce sees, in enumeration order.
Fragments(d) ==
    LET files == SelectSeq(d, Usable)
    IN [i \in 1..Len(files) |-> parse_file(files[i].file).book]

RECURSIVE ReduceFrom(_, _, _)
ReduceFrom(a, items, i) ==
    IF i > Len(items) THEN a ELSE ReduceFrom(merge(a, items[i]), items, i + 1)

\* Iterator::reduce(AudioBook::merge) over the items.
reduce(items) ==
    IF items = << >> THEN None ELSE Some(ReduceFrom(items[1], items, 2))

\* Every value parse_book can return for a listable directory whose usable
\* files are frs, in that order.
ResultsOfFragments(frs) ==
    LET folded == reduce([i \in 1..Len(frs) |-> Ok(frs[i])])
    IN IF IsNone(folded) THEN {None}
       ELSE IF ~folded[1].ok THEN {folded}
       ELSE {Some(Ok([folded[1].book EXCEPT !.tracks = s])) :
                s \in sort_by(folded[1].book.tracks)}

(* --------------------------- vocabulary of the claims ------------------ *)
Done == pc = "done"
IsBook(res) == IsSome(res) /\ res[1].ok
IsFailure(res) == IsSome(res) /\ ~res[1].ok
ConflictKinds == {"TitleConflict", "DiscConflict", "YearConflict"}
MustMatch(a, b) == a.title = b.title /\ a.discs = b.discs /\ a.year = b.year

\* The calls of merge made directly: << lhs, rhs, result >>.
Calls ==
    (IF IsSome(lr) THEN {<< lhs, rhs, lr[1] >>} ELSE {})
    \cup (IF IsSome(rt) THEN {<< rhs, third, rt[1] >>} ELSE {})
    \cup (IF IsSome(lr_t) THEN {<< lr[1], third, lr_t[1] >>} ELSE {})
    \cup (IF IsSome(l_rt) THEN {<< lhs, rt[1], l_rt[1] >>} ELSE {})
BookCalls == {c \in Calls : c[1].ok /\ c[2].ok}

(* C1: merge of two books succeeds exactly when title, discs and year are
   equal; otherwise it reports the conflict of the first differing field in
   the order title, discs, year, a title conflict carrying both titles. *)
C1_MergeConflictOrder ==
    \A c \in BookCalls :
       LET a == c[1].book
           b == c[2].book
           r == c[3]
       IN /\ r.ok <=> MustMatch(a, b)
          /\ a.title # b.title =>
                /\ r.err.kind = "TitleConflict"
                /\ r.err.left = Some(a.title)
                /\ r.err.right = Some(b.title)
          /\ (a.title = b.title /\ a.discs # b.discs) =>
                r.err.kind = "DiscConflict"
          /\ (a.title = b.title /\ a.discs = b.discs /\ a.year # b.year) =>
                r.err.kind = "YearConflict"

\* merge was called on two books that differ in title and in discs, and on
\* two books whose discs are both present and different.
C1_Witness ==
    /\ IsSome(lr) /\ lhs.ok /\ rhs.ok
    /\ lhs.book.title # rhs.book.title
    /\ lhs.book.discs # rhs.book.discs
    /\ IsSome(rt) /\ third.ok
    /\ IsSome(rhs.book.discs) /\ IsSome(third.book.discs)
    /\ rhs.book.discs # third.book.discs

(* C2: merge returns lhs's failure when lhs is a failure and rhs's failure
   when lhs is a book and rhs a failure; in the fold of parse_book every
   accumulator after the first failure, and the value returned, is that
   failure. *)
C2_FailurePropagates ==
    /\ \A c \in Calls :
          /\ ~c[1].ok => c[3] = c[1]
          /\ (c[1].ok /\ ~c[2].ok) => c[3] = c[2]
    /\ \A i \in 1..Len(accs) : \A j \in i..Len(accs) :
          ~accs[i].ok => accs[j] = accs[i]
    /\ (Done /\ \E i \in 1..Len(accs) : ~accs[i].ok) =>
          \E i \in 1..Len(accs) :
             /\ ~accs[i].ok
             /\ \A k \in 1..(i - 1) : accs[k].ok
             /\ result = Some(accs[i])

\* parse_book returned after the second of three books failed to merge.
C2_Witness ==
    /\ Done /\ Len(accs) = 3
    /\ accs[1].ok /\ ~accs[2].ok
    /\ MustMatch(Fragments(dir)[1], Fragments(dir)[3])
    /\ IsFailure(result)

(* C3: a successful merge of books a and b has the union of the authors,
   the union of the readers, a's tracks followed by b's, the sum of the
   total_tracks, and the common title, discs and year. *)
C3_MergedFields ==
    \A c \in BookCalls :
       LET a == c[1].book
           b == c[2].book
           r == c[3]
       IN r.ok =>
          /\ r.book.author = a.author \cup b.author
          /\ r.book.reader = a.reader \cup b.reader
          /\ r.book.tracks = a.tracks \o b.tracks
          /\ r.book.total_tracks = a.total_tracks + b.total_tracks
          /\ r.book.title = a.title /\ r.book.title = b.title
          /\ r.book.discs = a.discs /\ r.book.discs = b.discs
          /\ r.book.year = a.year /\ r.book.year = b.year

\* A two-track book was merged with a third book of another author and reader.
C3_Witness ==
    /\ IsSome(lr_t) /\ lr_t[1].ok
    /\ Len(lr_t[1].book.tracks) = 3
    /\ lr_t[1].book.tracks[1] # lr_t[1].book.tracks[3]
    /\ Cardinality(lr_t[1].book.author) = 2
    /\ Cardinality(lr_t[1].book.reader) = 3

(* C9: for books a, b, c, merge(merge(a,b),c) succeeds exactly when
   merge(a,merge(b,c)) does; when the three agree on title, discs and year
   both succeed and give the same book. *)
C9_MergeAssociative ==
    (lhs.ok /\ rhs.ok /\ third.ok /\ IsSome(lr_t) /\ IsSome(l_rt)) =>
       /\ lr_t[1].ok <=> l_rt[1].ok
       /\ (MustMatch(lhs.book, rhs.book) /\ MustMatch(rhs.book, third.book)) =>
             /\ lr_t[1].ok /\ l_rt[1].ok
             /\ lr_t[1].book = l_rt[1].book

\* Both groupings of three pairwise different books were computed and succeeded.
C9_Witness ==
    /\ IsSome(lr_t) /\ IsSome(l_rt)
    /\ lr_t[1].ok /\ l_rt[1].ok
    /\ Cardinality({lhs, rhs, third}) = 3

(* --------------------------- claims about parse_book ------------------- *)
Frs == Fragments(dir)

\* The first field, in merge's order, in which books a and b differ.
FirstConflict(a, b) ==
    IF a.title # b.title THEN Report("TitleConflict", Some(a.title), Some(b.title))
    ELSE IF a.discs # b.discs THEN Report("DiscConflict", a.discs, b.discs)
    ELSE Report("YearConflict", a.year, b.year)

TitlesDiffer ==
    LET frs == Frs IN \E i \in 2..Len(frs) : frs[i].title # frs[1].title

(* C4, as stated: a directory whose parsed files carry different titles
   yields a title conflict, whatever the enumeration order. *)
C4_AlwaysTitleConflict ==
    (Done /\ listable /\ TitlesDiffer) =>
       /\ IsFailure(result)
       /\ result[1].err.kind = "TitleConflict"

(* C4, amended: such a directory never yields a book; it yields the conflict
   between the first enumerated file and the first later file that differs
   from it in title, discs or year, named after the first of these fields
   that differs.  It is a title conflict whenever all files agree on discs
   and year. *)
C4_FirstConflictWins ==
    (Done /\ listable /\ TitlesDiffer) =>
       /\ IsFailure(result)
       /\ result[1].err.kind \in ConflictKinds
       /\ LET frs == Frs
          IN /\ \E k \in 2..Len(frs) :
                   /\ ~MustMatch(frs[1], frs[k])
                   /\ \A i \in 2..(k - 1) : MustMatch(frs[1], frs[i])
                   /\ result[1].err = FirstConflict(frs[1], frs[k])
             /\ (\A i \in 1..Len(frs) :
                    frs[i].discs = frs[1].discs /\ frs[i].year = frs[1].year) =>
                   result[1].err.kind = "TitleConflict"

\* Titles differ in the directory and parse_book reported another conflict.
C4_Witness ==
    /\ Done /\ listable /\ TitlesDiffer
    /\ IsFailure(result)
    /\ result[1].err.kind = "DiscConflict"

(* C5, as stated: every enumeration order of the directory's files gives the
   identical result. *)
C5_OrderIndependent ==
    (Done /\ listable) =>
       \A p \in Arrangements(Frs) : ResultsOfFragments(p) = {result}

Count(s, x) == Cardinality({i \in 1..Len(s) : s[i] = x})
SameBag(s, t) ==
    /\ Len(s) = Len(t)
    /\ \A i \in 1..Len(s) : Count(s, s[i]) = Count(t, s[i])
TiesAreCopies(s) ==
    \A i, j \in 1..Len(s) : s[i].track = s[j].track => s[i] = s[j]

\* Results that differ at most in the order of tracks sharing a track number,
\* or in which conflict they report.
SameUpToTies(r1, r2) ==
    /\ IsNone(r1) <=> IsNone(r2)
    /\ IsBook(r1) <=> IsBook(r2)
    /\ (IsFailure(r1) /\ IsFailure(r2)) =>
          /\ r1[1].err.kind \in ConflictKinds
          /\ r2[1].err.kind \in ConflictKinds
    /\ (IsBook(r1) /\ IsBook(r2)) =>
          LET a == r1[1].book
              b == r2[1].book
          IN /\ a.title = b.title /\ a.discs = b.discs /\ a.year = b.year
             /\ a.author = b.author /\ a.reader = b.reader
             /\ a.total_tracks = b.total_tracks
             /\ SameBag(a.tracks, b.tracks)
             /\ \A i \in 1..(Len(a.tracks) - 1) :
                   a.tracks[i].track <= a.tracks[i + 1].track
             /\ \A i \in 1..(Len(b.tracks) - 1) :
                   b.tracks[i].track <= b.tracks[i + 1].track
             /\ TiesAreCopies(a.tracks) => a.tracks = b.tracks

(* C5, amended: every enumeration order gives a book, or every order gives a
   failure.  The books have the same title, authors, readers, total_tracks,
   discs and year and the same tracks ordered by track number; the track
   sequences are identical when no two different tracks share a track
   number.  The failures are conflicts, not necessarily the same one. *)
C5_OrderIndependentUpToTies ==
    (Done /\ listable) =>
       \A p \in Arrangements(Frs) :
          \A r \in ResultsOfFragments(p) : SameUpToTies(result, r)

\* A book was returned for three files enumerated out of track order, two
\* of them different tracks with the same number.
C5_Witness ==
    /\ Done /\ IsBook(result) /\ Len(Frs) = 3
    /\ Frs[1].tracks[1].track > Frs[2].tracks[1].track
    /\ Frs[2].tracks[1].track = Frs[3].tracks[1].track
    /\ Frs[2].tracks[1] # Frs[3].tracks[1]
    /\ Frs[1].author # Frs[2].author

(* C6: the tracks of a returned book are in non-decreasing track order and
   are the tracks of the fold, none added, lost or altered; no other field
   is changed by the sort. *)
C6_TracksOrdered ==
    (Done /\ IsBook(result)) =>
       LET sorted == result[1].book.tracks
       IN /\ \A i \in 1..(Len(sorted) - 1) : sorted[i].track <= sorted[i + 1].track
          /\ IsSome(acc) /\ acc[1].ok
          /\ SameBag(sorted, acc[1].book.tracks)
          /\ result[1].book = [acc[1].book EXCEPT !.tracks = sorted]

\* The fold ended with track 2 (no disc) ahead of track 1 of disc 1.
C6_Witness ==
    /\ Done /\ IsBook(result)
    /\ \E i, j \in 1..Len(acc[1].book.tracks) :
          /\ i < j
          /\ acc[1].book.tracks[i].track > acc[1].book.tracks[j].track
          /\ IsNone(acc[1].book.tracks[i].disc)
          /\ IsSome(acc[1].book.tracks[j].disc)

(* C7: parse_book returns None exactly when the directory was listed and no
   entry gave a book; entries that cannot be read, are no regular files or
   cannot be parsed never change the result, which is one the usable files
   alone give. *)
C7_NoneIffNoFragment ==
    Done =>
       /\ IsNone(result) <=> (listable /\ Frs = << >>)
       /\ listable => result \in ResultsOfFragments(Frs)
       /\ ~listable => result = Some(Err(IoError))

\* A book was returned for a directory holding an unreadable entry, a file
\* without usable tag and one usable file.
C7_Witness ==
    /\ Done /\ IsBook(result) /\ Len(dir) = 3 /\ Len(Frs) = 1
    /\ \E i \in 1..3 : dir[i].kind = "unreadable"
    /\ \E i \in 1..3 : dir[i].kind = "file" /\ ~parse_file(dir[i].file).ok

\* The directory was listed, held entries, and None was returned.
C7_WitnessNone == Done /\ listable /\ Len(dir) = 3 /\ IsNone(result)

RECURSIVE SumTotals(_, _)
SumTotals(frs, n) ==
    IF n = 0 THEN 0 ELSE SumTotals(frs, n - 1) + frs[n].total_tracks
RECURSIVE SumLengths(_, _)
SumLengths(frs, n) ==
    IF n = 0 THEN 0 ELSE SumLengths(frs, n - 1) + Len(frs[n].tracks)

(* C8: while the fold succeeds, total_tracks is the sum of the folded books'
   total_tracks and the track list is as long as theirs together; a returned
   book has total_tracks = Len(tracks) = the number of files parsed. *)
C8_TotalTracksCounts ==
    /\ \A k \in 1..Len(accs) :
          accs[k].ok =>
             /\ accs[k].book.total_tracks = SumTotals(Frs, k)
             /\ Len(accs[k].book.tracks) = SumLengths(Frs, k)
    /\ (Done /\ IsBook(result)) =>
          /\ result[1].book.total_tracks = Len(result[1].book.tracks)
          /\ result[1].book.total_tracks =
                Cardinality({i \in 1..Len(dir) : Usable(dir[i])})

\* A book of three files was returned.
C8_Witness ==
    /\ Done /\ IsBook(result)
    /\ result[1].book.total_tracks = 3

(* C10, as stated: the final sort is stable, tracks that share a track
   number keep the order in which they arrived in the fold. *)
C10_SortStable ==
    (Done /\ IsBook(result)) =>
       LET before == acc[1].book.tracks
           after == result[1].book.tracks
       IN \E p \in Permutations(1..Len(before)) :
             /\ \A i \in 1..Len(before) : after[i] = before[p[i]]
             /\ \A i, j \in 1..Len(before) :
                   (i < j /\ after[i].track = after[j].track) => p[i] < p[j]

====
